---- MODULE Spec2Model ----
(***************************************************************************)
(* cdk-deployer: the stack-lifecycle engine of pkg/cdk/deployer.go.        *)
(*                                                                         *)
(* One batch call (Deployer.DeployAll or Deployer.DetectDriftAll) runs     *)
(* over an ordered list of stack names.  Every CloudFormation call is one  *)
(* atomic step whose response is chosen by the remote; a call made with a  *)
(* cancelled context fails with the cancellation error.  The pollers       *)
(* (waitForStack, waitForDriftDetection) are Go select loops over three    *)
(* channels: ctx.Done(), the time.After deadline and the ticker; select    *)
(* picks any ready case, with no priority between them.  Time is counted   *)
(* in seconds and advances by one poll interval while the select blocks.   *)
(***************************************************************************)
EXTENDS Integers, Sequences, FiniteSets, TLC

VARIABLES
    mode,        \* "deploy" (DeployAll) or "drift" (DetectDriftAll)
    stacks,      \* the ordered list of stack names given to the batch
    ctxDone,     \* ctx.Done() is closed (cancel() was called)
    idx,         \* 1-based position of the range loop over stacks
    pc,          \* where the flow of control is
    results,     \* the batch's `results` slice
    batchErr,    \* the error the batch returned (Nil while running)
    wfErr,       \* history: the error returned by each finished Deploy/DetectDrift
    exists,      \* local `exists` of Deploy / DetectDrift
    existsErr,   \* the `err` stackExists got from DescribeStacks, until polling starts
    stackID,     \* local `stackID` of Deploy / `driftDetectionId` of DetectDrift
    status,      \* the status returned by the poller
    driftStatus, \* result.DriftStatus inside getDriftResults
    now,         \* seconds since the poller created its ticker and deadline
    tickReady,   \* ticker.C holds a tick
    queries,     \* status queries issued so far by the poller that is running
    pollState,   \* how the poller of the current workflow stands / returned
    calls,       \* calls[k] = requests of kind k sent by the current workflow
    requested,   \* history: positions for whose stack some request was sent
    templateBody, \* Deploy's templateBody
    request,     \* the input of the mutating request the current workflow sent
    runPc,       \* where run stands
    cleanup,     \* the -cleanup flag
    dirExists,   \* the directory of the cloned repository exists
    cleanupCalls, \* calls of git.CleanupRepository made so far
    cleanupWarned, \* the warning of a failed cleanup was printed
    runErr       \* the error run returned

vars == <<mode, stacks, ctxDone, idx, pc, results, batchErr, wfErr, exists,
          existsErr, stackID, status, driftStatus, now, tickReady, queries,
          pollState, calls, requested, templateBody, request, runPc, cleanup,
          dirExists, cleanupCalls, cleanupWarned, runErr>>

(***************************************************************************)
(* Bounds of the model.                                                    *)
(***************************************************************************)
MaxStacks == 2

StackIds == {"A", "B"}

RECURSIVE SeqsUpTo(_, _)
SeqsUpTo(S, n) ==
    IF n = 0 THEN {<<>>}
    ELSE LET shorter == SeqsUpTo(S, n - 1)
         IN  shorter \cup {Append(q, x) : q \in shorter, x \in S}

StackLists == SeqsUpTo(StackIds, MaxStacks)

(***************************************************************************)
(* Go values: errors and slices.                                           *)
(* An error is its chain of wrapped messages, outermost first; fmt.Errorf  *)
(* with %w puts one frame in front of the wrapped error, fmt.Errorf with   *)
(* %s only starts a new chain.  Nil is the nil error.                      *)
(***************************************************************************)
Nil == <<>>

Frame(msg, arg) == [msg |-> msg, arg |-> arg]

Errorf(msg, arg) == <<Frame(msg, arg)>>

Wrap(msg, arg, e) == <<Frame(msg, arg)>> \o e

\* errors.Is along the chain
ErrorIs(e, msg) == \E i \in 1..Len(e) : e[i].msg = msg

Canceled == Errorf("context canceled", "")

\* A Go slice: nil, or a (possibly empty) sequence of elements.
NilSlice == [isNil |-> TRUE, elems |-> <<>>]

GoAppend(s, x) == [isNil |-> FALSE, elems |-> Append(s.elems, x)]

(***************************************************************************)
(* The remote (CloudFormation).                                            *)
(***************************************************************************)
SuccessStatuses == {"CREATE_COMPLETE", "UPDATE_COMPLETE"}

FailureStatuses ==
    {"CREATE_FAILED", "ROLLBACK_COMPLETE", "ROLLBACK_FAILED",
     "UPDATE_ROLLBACK_COMPLETE", "UPDATE_ROLLBACK_FAILED",
     "DELETE_COMPLETE", "DELETE_FAILED"}

\* statuses of types.StackStatus that waitForStack lists in neither case
OtherStatuses == {"CREATE_IN_PROGRESS", "UPDATE_IN_PROGRESS", "IMPORT_COMPLETE"}

StackStatuses == SuccessStatuses \cup FailureStatuses \cup OtherStatuses

DetectionStatuses ==
    {"DETECTION_IN_PROGRESS", "DETECTION_COMPLETE", "DETECTION_FAILED"}

\* failures of a call: the stack is unknown, the network, the credentials
RemoteErrorKinds == {"ValidationError: stack does not exist",
                     "transport failure", "ExpiredToken"}

RemoteErrors(done) ==
    IF done THEN {Canceled} ELSE {Errorf(k, "") : k \in RemoteErrorKinds}

\* what the remote holds for a stack name
RemoteOutputs(s) ==
    IF s = "A"
    THEN <<[OutputKey |-> "K1", OutputValue |-> "V1"],
           [OutputKey |-> "K2", OutputValue |-> "V2"]>>
    ELSE <<>>

RemoteDriftStatus(s) == IF s = "A" THEN "DRIFTED" ELSE "IN_SYNC"

RemoteResourceDrifts(s) ==
    IF s = "A"
    THEN <<[LogicalResourceId |-> "Fn", PhysicalResourceId |-> "fn-1",
            ResourceType |-> "AWS::Lambda::Function",
            StackResourceDriftStatus |-> "MODIFIED",
            PropertyDifferences |->
                <<[PropertyPath |-> "Properties.Timeout", ExpectedValue |-> "30",
                   ActualValue |-> "60", DifferenceType |-> "NOT_EQUAL"],
                  [PropertyPath |-> "Properties.Memory", ExpectedValue |-> "128",
                   ActualValue |-> "", DifferenceType |-> "REMOVE"]>>],
           [LogicalResourceId |-> "Bucket", PhysicalResourceId |-> "b-1",
            ResourceType |-> "AWS::S3::Bucket",
            StackResourceDriftStatus |-> "IN_SYNC",
            PropertyDifferences |-> <<>>],
           [LogicalResourceId |-> "Role", PhysicalResourceId |-> "",
            ResourceType |-> "AWS::IAM::Role",
            StackResourceDriftStatus |-> "DELETED",
            PropertyDifferences |-> <<>>],
           [LogicalResourceId |-> "Topic", PhysicalResourceId |-> "t-1",
            ResourceType |-> "AWS::SNS::Topic",
            StackResourceDriftStatus |-> "NOT_CHECKED",
            PropertyDifferences |-> <<>>]>>
    ELSE <<[LogicalResourceId |-> "Queue", PhysicalResourceId |-> "q-1",
            ResourceType |-> "AWS::SQS::Queue",
            StackResourceDriftStatus |-> "IN_SYNC",
            PropertyDifferences |-> <<>>]>>

RemoteStack(s, st) ==
    [StackStatus |-> st, Outputs |-> RemoteOutputs(s),
     StackDriftStatus |-> RemoteDriftStatus(s)]

\* responses of cfnClient.DescribeStacks(ctx, {StackName: s})
DescribeStacks(s, done) ==
    IF done THEN {[err |-> Canceled, Stacks |-> <<>>]}
    ELSE {[err |-> e, Stacks |-> <<>>] : e \in RemoteErrors(FALSE)}
         \cup {[err |-> Nil, Stacks |-> <<>>]}
         \cup {[err |-> Nil, Stacks |-> <<RemoteStack(s, st)>>] : st \in StackStatuses}

\* the StackId a CreateStack / UpdateStack response carries
StackArn(s) == "arn:" \o s

\* responses of cfnClient.CreateStack / UpdateStack
SubmitResponses(s, done) ==
    IF done THEN {[err |-> Canceled, StackId |-> ""]}
    ELSE {[err |-> e, StackId |-> ""] :
             e \in RemoteErrors(FALSE) \cup {Errorf("InsufficientCapabilities", "")}}
         \cup {[err |-> Nil, StackId |-> StackArn(s)]}

DetectionId(s) == "detection:" \o s

\* responses of cfnClient.DetectStackDrift
DetectResponses(s, done) ==
    IF done THEN {[err |-> Canceled, StackDriftDetectionId |-> ""]}
    ELSE {[err |-> e, StackDriftDetectionId |-> ""] : e \in RemoteErrors(FALSE)}
         \cup {[err |-> Nil, StackDriftDetectionId |-> DetectionId(s)]}

DetectionReason == "internal failure"

\* responses of cfnClient.DescribeStackDriftDetectionStatus
\* for the detection job id; only the id of a started job has a status
DetectionStatusResponses(id, done) ==
    IF done THEN {[err |-> Canceled, DetectionStatus |-> "", DetectionStatusReason |-> ""]}
    ELSE {[err |-> e, DetectionStatus |-> "", DetectionStatusReason |-> ""] :
             e \in RemoteErrors(FALSE)}
         \cup {[err |-> Nil, DetectionStatus |-> d,
                DetectionStatusReason |-> IF d = "DETECTION_FAILED"
                                          THEN DetectionReason ELSE ""] :
                 d \in IF id \in {DetectionId(s) : s \in StackIds}
                       THEN DetectionStatuses ELSE {}}

\* the remote applies StackResourceDriftStatusFilters to the stack's records
FilterDrifts(records, filters) ==
    SelectSeq(records, LAMBDA rd : rd.StackResourceDriftStatus \in filters)

\* responses of cfnClient.DescribeStackResourceDrifts
ResourceDriftsResponses(s, filters, done) ==
    IF done THEN {[err |-> Canceled, StackResourceDrifts |-> <<>>]}
    ELSE {[err |-> e, StackResourceDrifts |-> <<>>] : e \in RemoteErrors(FALSE)}
         \cup {[err |-> Nil,
                StackResourceDrifts |-> FilterDrifts(RemoteResourceDrifts(s), filters)]}

\* responses of synthesizer.GetTemplateBody (os.ReadFile of the template)
TemplateResponses(s) ==
    {[err |-> Nil, body |-> "template:" \o s],
     [err |-> Wrap("failed to read template for stack", s,
                   Errorf("no such file", "")),
      body |-> ""]}


(***************************************************************************)
(* Program constants of the two pollers, in seconds.                       *)
(***************************************************************************)
StackPollInterval == 10

\* a deadline of one hour
StackTimeout_Doubled == 60 * 60

StackTimeout == 30 * 60

DriftPollInterval == 5

\* a deadline of twenty minutes
DriftTimeout_Doubled == 20 * 60

DriftTimeout == 10 * 60

(***************************************************************************)
(* Bookkeeping of the requests sent to the remote.                         *)
(***************************************************************************)
Kinds == {"exists", "create", "update", "detect", "outputs", "describe", "drifts"}

NoCalls == [k \in Kinds |-> 0]

Bump(c, k) == [c EXCEPT ![k] = @ + 1]

(***************************************************************************)
(* The pure parts of deployer.go.                                          *)
(***************************************************************************)
\* stackExists that returns the error of DescribeStacks to its caller
stackExists_ReturnsError(resp) ==
    IF resp.err # Nil THEN [exists |-> FALSE, err |-> resp.err]
    ELSE [exists |-> TRUE, err |-> Nil]

\* stackExists: (bool, error) from the DescribeStacks response
stackExists(resp) ==
    IF resp.err # Nil THEN [exists |-> FALSE, err |-> Nil]
    ELSE [exists |-> TRUE, err |-> Nil]

\* Deploy with the branches of `if exists` swapped
SubmitKind_Swapped(e) == IF e THEN "create" ELSE "update"

\* Deploy: which request is submitted for the value of `exists`
SubmitKind(e) == IF e THEN "update" ELSE "create"

\* no mutating request sent yet
NoRequest == [op |-> ""]

\* the Capabilities of CreateStackInput and UpdateStackInput
Capabilities == <<"CAPABILITY_IAM", "CAPABILITY_NAMED_IAM", "CAPABILITY_AUTO_EXPAND">>

\* createStack: the CreateStackInput
CreateStackInput(stackName, body) ==
    [op |-> "CreateStack", StackName |-> stackName, TemplateBody |-> body,
     Capabilities |-> Capabilities, OnFailure |-> "ROLLBACK"]

\* an UpdateStackInput that does not declare CAPABILITY_AUTO_EXPAND
UpdateStackInput_NoAutoExpand(stackName, body) ==
    [op |-> "UpdateStack", StackName |-> stackName, TemplateBody |-> body,
     Capabilities |-> <<"CAPABILITY_IAM", "CAPABILITY_NAMED_IAM">>]

\* updateStack: the UpdateStackInput
UpdateStackInput(stackName, body) ==
    [op |-> "UpdateStack", StackName |-> stackName, TemplateBody |-> body,
     Capabilities |-> Capabilities]

\* the input of the request Deploy sends
SubmitInput(kind, stackName, body) ==
    IF kind = "create" THEN CreateStackInput(stackName, body)
    ELSE UpdateStackInput(stackName, body)

\* DetectDrift: the DetectStackDriftInput
DetectStackDriftInput(stackName) ==
    [op |-> "DetectStackDrift", StackName |-> stackName]

\* createStack / updateStack formatting the SDK error with %v: the cause is lost
submitStack_DropsCause(kind, resp) ==
    IF resp.err # Nil
    THEN [stackID |-> "",
          err |-> Errorf(IF kind = "create" THEN "failed to create stack"
                         ELSE "failed to update stack", "")]
    ELSE [stackID |-> resp.StackId, err |-> Nil]

\* createStack / updateStack: (string, error) from the response
submitStack(kind, resp) ==
    IF resp.err # Nil
    THEN [stackID |-> "",
          err |-> Wrap(IF kind = "create" THEN "failed to create stack"
                       ELSE "failed to update stack", "", resp.err)]
    ELSE [stackID |-> resp.StackId, err |-> Nil]

\* getStackStatus: (string, error) from the DescribeStacks response
getStackStatus(stackName, resp) ==
    IF resp.err # Nil
    THEN [status |-> "", err |-> Wrap("failed to describe stack", "", resp.err)]
    ELSE IF Len(resp.Stacks) = 0
    THEN [status |-> "", err |-> Errorf("stack not found", stackName)]
    ELSE [status |-> resp.Stacks[1].StackStatus, err |-> Nil]

\* the switch of waitForStack with DELETE_COMPLETE missing from the failure case
StackVerdict_NoDeleteComplete(st) ==
    IF st \in {"CREATE_COMPLETE", "UPDATE_COMPLETE"} THEN "Succeeded"
    ELSE IF st \in {"CREATE_FAILED", "ROLLBACK_COMPLETE", "ROLLBACK_FAILED",
                    "UPDATE_ROLLBACK_COMPLETE", "UPDATE_ROLLBACK_FAILED",
                    "DELETE_FAILED"} THEN "Failed"
    ELSE "Pending"

\* waitForStack: the switch over the observed status
StackVerdict(st) ==
    IF st \in {"CREATE_COMPLETE", "UPDATE_COMPLETE"} THEN "Succeeded"
    ELSE IF st \in {"CREATE_FAILED", "ROLLBACK_COMPLETE", "ROLLBACK_FAILED",
                    "UPDATE_ROLLBACK_COMPLETE", "UPDATE_ROLLBACK_FAILED",
                    "DELETE_COMPLETE", "DELETE_FAILED"} THEN "Failed"
    ELSE "Pending"

\* a tick of waitForStack that logs a failed query and waits for the next tick
waitForStackTick_RetriesQuery(stackName, resp) ==
    LET q == getStackStatus(stackName, resp)
        v == StackVerdict(q.status)
    IN  IF q.err # Nil
        THEN [state |-> "Pending", status |-> "", err |-> Nil]
        ELSE IF v = "Succeeded"
        THEN [state |-> "Succeeded", status |-> q.status, err |-> Nil]
        ELSE IF v = "Failed"
        THEN [state |-> "Failed", status |-> q.status,
              err |-> Errorf("stack operation failed with status", q.status)]
        ELSE [state |-> "Pending", status |-> q.status, err |-> Nil]

\* waitForStack: what one tick returns, given the DescribeStacks response:
\* the poller's next state, the returned status and the returned error
waitForStackTick(stackName, resp) ==
    LET q == getStackStatus(stackName, resp)
        v == StackVerdict(q.status)
    IN  IF q.err # Nil
        THEN [state |-> "QueryError", status |-> "", err |-> q.err]
        ELSE IF v = "Succeeded"
        THEN [state |-> "Succeeded", status |-> q.status, err |-> Nil]
        ELSE IF v = "Failed"
        THEN [state |-> "Failed", status |-> q.status,
              err |-> Errorf("stack operation failed with status", q.status)]
        ELSE [state |-> "Pending", status |-> q.status, err |-> Nil]

RECURSIVE ProjectOutputs(_, _)
ProjectOutputs(outs, acc) ==
    IF outs = <<>> THEN acc
    ELSE ProjectOutputs(Tail(outs),
                        GoAppend(acc, [Key |-> Head(outs).OutputKey,
                                       Value |-> Head(outs).OutputValue]))

\* getStackOutputs: ([]StackOutput, error) from the DescribeStacks response
getStackOutputs(resp) ==
    IF resp.err # Nil
    THEN [outputs |-> NilSlice, err |-> Wrap("failed to describe stack", "", resp.err)]
    ELSE IF Len(resp.Stacks) = 0
    THEN [outputs |-> NilSlice, err |-> Nil]
    ELSE [outputs |-> ProjectOutputs(resp.Stacks[1].Outputs, NilSlice), err |-> Nil]

\* waitForDriftDetection reporting the status in place of the remote reason
waitForDriftTick_DropsReason(resp) ==
    IF resp.err # Nil
    THEN [state |-> "QueryError", status |-> "",
          err |-> Wrap("failed to get drift detection status", "", resp.err)]
    ELSE IF resp.DetectionStatus = "DETECTION_COMPLETE"
    THEN [state |-> "Succeeded", status |-> resp.DetectionStatus, err |-> Nil]
    ELSE IF resp.DetectionStatus = "DETECTION_FAILED"
    THEN [state |-> "Failed", status |-> resp.DetectionStatus,
          err |-> Errorf("drift detection failed", resp.DetectionStatus)]
    ELSE [state |-> "Pending", status |-> resp.DetectionStatus, err |-> Nil]

\* waitForDriftDetection: what one tick returns, given the response of
\* DescribeStackDriftDetectionStatus
waitForDriftTick(resp) ==
    IF resp.err # Nil
    THEN [state |-> "QueryError", status |-> "",
          err |-> Wrap("failed to get drift detection status", "", resp.err)]
    ELSE IF resp.DetectionStatus = "DETECTION_COMPLETE"
    THEN [state |-> "Succeeded", status |-> resp.DetectionStatus, err |-> Nil]
    ELSE IF resp.DetectionStatus = "DETECTION_FAILED"
    THEN [state |-> "Failed", status |-> resp.DetectionStatus,
          err |-> Errorf("drift detection failed", resp.DetectionStatusReason)]
    ELSE [state |-> "Pending", status |-> resp.DetectionStatus, err |-> Nil]

\* a request that leaves NOT_CHECKED out of the filters
DriftFilters_NoNotChecked == {"MODIFIED", "DELETED"}

\* getDriftResults: the StackResourceDriftStatusFilters of the request
DriftFilters == {"MODIFIED", "DELETED", "NOT_CHECKED"}

RECURSIVE ProjectDiffs(_, _)
ProjectDiffs(pds, acc) ==
    IF pds = <<>> THEN acc
    ELSE ProjectDiffs(Tail(pds),
                      GoAppend(acc, [PropertyPath |-> Head(pds).PropertyPath,
                                     ExpectedValue |-> Head(pds).ExpectedValue,
                                     ActualValue |-> Head(pds).ActualValue,
                                     DifferenceType |-> Head(pds).DifferenceType]))

\* a DriftedResource that keeps only the last property difference
DriftedResource_LastDiffOnly(rd) ==
    [LogicalID |-> rd.LogicalResourceId,
     PhysicalID |-> rd.PhysicalResourceId,
     ResourceType |-> rd.ResourceType,
     DriftStatus |-> rd.StackResourceDriftStatus,
     PropertyDiffs |->
         ProjectDiffs(IF Len(rd.PropertyDifferences) <= 1
                      THEN rd.PropertyDifferences
                      ELSE Tail(rd.PropertyDifferences), NilSlice)]

\* getDriftResults: the DriftedResource built from one record
DriftedResource(rd) ==
    [LogicalID |-> rd.LogicalResourceId,
     PhysicalID |-> rd.PhysicalResourceId,
     ResourceType |-> rd.ResourceType,
     DriftStatus |-> rd.StackResourceDriftStatus,
     PropertyDiffs |-> ProjectDiffs(rd.PropertyDifferences, NilSlice)]

RECURSIVE ProjectDrifts(_, _)
ProjectDrifts(rds, acc) ==
    IF rds = <<>> THEN acc
    ELSE ProjectDrifts(Tail(rds), GoAppend(acc, DriftedResource(Head(rds))))

DriftResult(stackName, ds, drifted) ==
    [StackName |-> stackName, DriftStatus |-> ds, DriftedResources |-> drifted]

\* DetectDrift without the `if !exists` return
DetectDriftPrecondition_Skipped(stackName, r) == r.err

\* DetectDrift: the error, if any, it returns after stackExists returned r
DetectDriftPrecondition(stackName, r) ==
    IF r.err # Nil THEN r.err
    ELSE IF ~r.exists THEN Errorf("stack does not exist", stackName)
    ELSE Nil

NoResult == [StackName |-> ""]

\* a DeployResult whose StackID repeats the stack name instead of the handle
DeployResult_NameAsID(stackName, id, st, outs) ==
    [StackName |-> stackName, StackID |-> stackName, Status |-> st, Outputs |-> outs]

DeployResult(stackName, id, st, outs) ==
    [StackName |-> stackName, StackID |-> id, Status |-> st, Outputs |-> outs]

(***************************************************************************)
(* The batch loops.                                                        *)
(***************************************************************************)
\* the loop body of DeployAll with `continue` in place of the return
DeployAllStep_KeepsGoing(stackName, result, e) ==
    IF e # Nil
    THEN /\ batchErr' = Wrap("failed to deploy stack", stackName, e)
         /\ idx' = idx + 1
         /\ pc' = "loop"
         /\ UNCHANGED results
    ELSE /\ results' = Append(results, result)
         /\ idx' = idx + 1
         /\ pc' = "loop"
         /\ UNCHANGED batchErr

\* a loop body that calls d.Deploy again for the same stack after an error
DeployAllStep_RetriesStack(stackName, result, e) ==
    IF e # Nil
    THEN /\ pc' = "template"
         /\ UNCHANGED <<results, idx, batchErr>>
    ELSE /\ results' = Append(results, result)
         /\ idx' = idx + 1
         /\ pc' = "loop"
         /\ UNCHANGED batchErr

\* DeployAll: the loop body after d.Deploy returned (result, e)
DeployAllStep(stackName, result, e) ==
    IF e # Nil
    THEN /\ batchErr' = Wrap("failed to deploy stack", stackName, e)
         /\ pc' = "done"
         /\ UNCHANGED <<results, idx>>
    ELSE /\ results' = Append(results, result)
         /\ idx' = idx + 1
         /\ pc' = "loop"
         /\ UNCHANGED batchErr

\* the loop body of DetectDriftAll returning nil results with the error
DetectDriftAllStep_DropsPartial(stackName, result, e) ==
    IF e # Nil
    THEN /\ batchErr' = Wrap("failed to detect drift for stack", stackName, e)
         /\ pc' = "done"
         /\ results' = <<>>
         /\ UNCHANGED idx
    ELSE /\ results' = Append(results, result)
         /\ idx' = idx + 1
         /\ pc' = "loop"
         /\ UNCHANGED batchErr

\* DetectDriftAll: the loop body after d.DetectDrift returned (result, e)
DetectDriftAllStep(stackName, result, e) ==
    IF e # Nil
    THEN /\ batchErr' = Wrap("failed to detect drift for stack", stackName, e)
         /\ pc' = "done"
         /\ UNCHANGED <<results, idx>>
    ELSE /\ results' = Append(results, result)
         /\ idx' = idx + 1
         /\ pc' = "loop"
         /\ UNCHANGED batchErr

\* a DeployAll that goes on without the return of d.Deploy being recorded
DeployReturns_NotAwaited(result, e) ==
    /\ DeployAllStep(stacks[idx], result, e)
    /\ UNCHANGED wfErr

\* Deploy returns (result, e) to DeployAll
DeployReturns(result, e) ==
    /\ DeployAllStep(stacks[idx], result, e)
    /\ wfErr' = Append(wfErr, e)

\* DetectDrift returns (result, e) to DetectDriftAll
DetectDriftReturns(result, e) ==
    /\ DetectDriftAllStep(stacks[idx], result, e)
    /\ wfErr' = Append(wfErr, e)

\* what a frame of Deploy / DetectDrift holds
locals == <<exists, existsErr, stackID, status, driftStatus, pollState, calls,
            templateBody, request>>

\* what a frame of waitForStack / waitForDriftDetection holds
timers == <<now, tickReady, queries>>

\* what run holds besides the batch
runVars == <<runPc, cleanup, dirExists, cleanupCalls, cleanupWarned, runErr>>

input == <<mode, stacks, ctxDone, runVars>>

\* the frame of a workflow that returned without error is gone
FrameDropped ==
    /\ exists' = FALSE
    /\ existsErr' = Nil
    /\ stackID' = ""
    /\ status' = ""
    /\ driftStatus' = ""
    /\ pollState' = "Idle"
    /\ calls' = NoCalls
    /\ templateBody' = ""
    /\ request' = NoRequest

Init ==
    /\ mode \in {"deploy", "drift"}
    /\ stacks \in StackLists
    /\ ctxDone = FALSE
    /\ idx = 1
    /\ pc = "loop"
    /\ results = <<>>
    /\ batchErr = Nil
    /\ wfErr = <<>>
    /\ exists = FALSE
    /\ existsErr = Nil
    /\ stackID = ""
    /\ status = ""
    /\ driftStatus = ""
    /\ now = 0
    /\ tickReady = FALSE
    /\ queries = 0
    /\ pollState = "Idle"
    /\ calls = NoCalls
    /\ requested = {}
    /\ templateBody = ""
    /\ request = NoRequest
    /\ runPc = "batch"
    /\ cleanup = TRUE
    /\ dirExists = TRUE
    /\ cleanupCalls = 0
    /\ cleanupWarned = FALSE
    /\ runErr = Nil

\* main: the signal goroutine calls cancel()
Cancel ==
    /\ pc # "done"
    /\ ~ctxDone
    /\ ctxDone' = TRUE
    /\ UNCHANGED <<mode, stacks, idx, pc, results, batchErr, wfErr, locals,
                   timers, requested, runVars>>

\* DeployAll: `for _, stackName := range stacks`, then d.Deploy or return
DeployAllLoop ==
    /\ mode = "deploy"
    /\ pc = "loop"
    /\ pc' = IF idx > Len(stacks) THEN "done" ELSE "template"
    /\ UNCHANGED <<input, idx, results, batchErr, wfErr, locals, timers, requested>>

\* a Deploy that goes on to the existence check whatever GetTemplateBody returned
GetTemplateBody_IgnoresError ==
    /\ pc = "template"
    /\ \E resp \in TemplateResponses(stacks[idx]) :
          /\ templateBody' = resp.body
          /\ pc' = "exists"
          /\ UNCHANGED <<idx, results, batchErr, wfErr>>
    /\ UNCHANGED <<input, exists, existsErr, stackID, status, driftStatus, pollState,
                   calls, request, timers, requested>>

\* Deploy: d.synthesizer.GetTemplateBody(stackName)
GetTemplateBody ==
    /\ pc = "template"
    /\ \E resp \in TemplateResponses(stacks[idx]) :
          /\ templateBody' = resp.body
          /\ IF resp.err # Nil
             THEN DeployReturns(NoResult, resp.err)
             ELSE /\ pc' = "exists"
                  /\ UNCHANGED <<idx, results, batchErr, wfErr>>
    /\ UNCHANGED <<input, exists, existsErr, stackID, status, driftStatus, pollState,
                   calls, request, timers, requested>>

\* Deploy: d.stackExists(ctx, stackName)
DeployStackExists ==
    /\ mode = "deploy"
    /\ pc = "exists"
    /\ \E resp \in DescribeStacks(stacks[idx], ctxDone) :
          LET r == stackExists(resp)
          IN  /\ existsErr' = resp.err
              /\ exists' = r.exists
              /\ IF r.err # Nil
                 THEN DeployReturns(NoResult, r.err)
                 ELSE /\ pc' = "submit"
                      /\ UNCHANGED <<idx, results, batchErr, wfErr>>
    /\ calls' = Bump(calls, "exists")
    /\ requested' = requested \cup {idx}
    /\ UNCHANGED <<input, stackID, status, driftStatus, pollState, timers,
                   templateBody, request>>

\* Deploy: d.updateStack or d.createStack, then entry into waitForStack
SubmitStack ==
    /\ pc = "submit"
    /\ LET kind == SubmitKind(exists)
       IN  /\ calls' = Bump(calls, kind)
           /\ request' = SubmitInput(kind, stacks[idx], templateBody)
           /\ \E resp \in SubmitResponses(stacks[idx], ctxDone) :
                 LET r == submitStack(kind, resp)
                 IN  /\ stackID' = r.stackID
                     /\ IF r.err # Nil
                        THEN /\ DeployReturns(NoResult, r.err)
                             /\ UNCHANGED <<pollState, existsErr>>
                        ELSE /\ pc' = "waitStack"
                             /\ pollState' = "Pending"
                             /\ existsErr' = Nil
                             /\ UNCHANGED <<idx, results, batchErr, wfErr>>
    /\ requested' = requested \cup {idx}
    /\ UNCHANGED <<input, exists, status, driftStatus, timers, templateBody>>

\* the runtime timer: one more poll interval passes while select blocks
TickerFires ==
    /\ pc \in {"waitStack", "waitDrift"}
    /\ ~ctxDone
    /\ ~tickReady
    /\ now < (IF pc = "waitStack" THEN StackTimeout ELSE DriftTimeout)
    /\ now' = now + (IF pc = "waitStack" THEN StackPollInterval ELSE DriftPollInterval)
    /\ tickReady' = TRUE
    /\ UNCHANGED <<input, idx, pc, results, batchErr, wfErr, locals, queries, requested>>

\* Deploy without the `if err != nil` after waitForStack: always on to the outputs
waitForStackReturns_IgnoresError(ps, st, e) ==
    /\ pollState' = ps
    /\ status' = st
    /\ now' = 0
    /\ tickReady' = FALSE
    /\ queries' = 0
    /\ pc' = "outputs"
    /\ UNCHANGED <<idx, results, batchErr, wfErr>>

\* a Deploy that submits again when waitForStack was cancelled or timed out
waitForStackReturns_ResubmitsOnAbort(ps, st, e) ==
    /\ pollState' = ps
    /\ status' = st
    /\ now' = 0
    /\ tickReady' = FALSE
    /\ queries' = 0
    /\ IF ps \in {"Cancelled", "TimedOut"}
       THEN /\ pc' = "submit"
            /\ UNCHANGED <<idx, results, batchErr, wfErr>>
       ELSE IF e # Nil
       THEN DeployReturns(NoResult, e)
       ELSE /\ pc' = "outputs"
            /\ UNCHANGED <<idx, results, batchErr, wfErr>>

\* waitForStack returns (st, e) in poller state ps; Deploy goes on or returns
waitForStackReturns(ps, st, e) ==
    /\ pollState' = ps
    /\ status' = st
    /\ now' = 0
    /\ tickReady' = FALSE
    /\ queries' = 0
    /\ IF e # Nil
       THEN DeployReturns(NoResult, e)
       ELSE /\ pc' = "outputs"
            /\ UNCHANGED <<idx, results, batchErr, wfErr>>

\* waitForStack: case <-ctx.Done()
WaitForStackCtxDone ==
    /\ pc = "waitStack"
    /\ ctxDone
    /\ waitForStackReturns("Cancelled", "", Canceled)
    /\ UNCHANGED <<input, exists, existsErr, stackID, driftStatus, calls, requested,
                   templateBody, request>>

\* a timeout case that reports the last status as a failed operation
WaitForStackTimeout_ReportsFailure ==
    /\ pc = "waitStack"
    /\ now >= StackTimeout
    /\ waitForStackReturns("TimedOut", status,
                           Errorf("stack operation failed with status", status))
    /\ UNCHANGED <<input, exists, existsErr, stackID, driftStatus, calls, requested,
                   templateBody, request>>

\* waitForStack: case <-timeout
WaitForStackTimeout ==
    /\ pc = "waitStack"
    /\ now >= StackTimeout
    /\ waitForStackReturns("TimedOut", "",
                           Errorf("timeout waiting for stack", stacks[idx]))
    /\ UNCHANGED <<input, exists, existsErr, stackID, driftStatus, calls, requested,
                   templateBody, request>>

\* a waitForStack that creates its ticker and its deadline anew after every
\* non-terminal status
WaitForStackTick_StartsOver ==
    /\ pc = "waitStack"
    /\ tickReady
    /\ requested' = requested \cup {idx}
    /\ \E resp \in DescribeStacks(stacks[idx], ctxDone) :
          LET t == waitForStackTick(stacks[idx], resp)
          IN  IF t.state = "Pending"
              THEN /\ status' = t.status
                   /\ tickReady' = FALSE
                   /\ queries' = 0
                   /\ now' = 0
                   /\ UNCHANGED <<pc, idx, results, batchErr, wfErr, pollState>>
              ELSE waitForStackReturns(t.state, t.status, t.err)
    /\ UNCHANGED <<input, exists, existsErr, stackID, driftStatus, calls,
                   templateBody, request>>

\* waitForStack: case <-ticker.C
WaitForStackTick ==
    /\ pc = "waitStack"
    /\ tickReady
    /\ requested' = requested \cup {idx}
    /\ \E resp \in DescribeStacks(stacks[idx], ctxDone) :
          LET t == waitForStackTick(stacks[idx], resp)
          IN  IF t.state = "Pending"
              THEN /\ status' = t.status
                   /\ tickReady' = FALSE
                   /\ queries' = queries + 1
                   /\ UNCHANGED <<pc, idx, results, batchErr, wfErr, pollState, now>>
              ELSE waitForStackReturns(t.state, t.status, t.err)
    /\ UNCHANGED <<input, exists, existsErr, stackID, driftStatus, calls,
                   templateBody, request>>

\* Deploy: d.getStackOutputs and the return of the DeployResult
GetStackOutputs ==
    /\ pc = "outputs"
    /\ requested' = requested \cup {idx}
    /\ \E resp \in DescribeStacks(stacks[idx], ctxDone) :
          LET r == getStackOutputs(resp)
          IN  /\ DeployReturns(DeployResult(stacks[idx], stackID, status, r.outputs),
                               r.err)
              /\ IF r.err # Nil
                 THEN /\ calls' = Bump(calls, "outputs")
                      /\ UNCHANGED <<exists, existsErr, stackID, status, driftStatus,
                                     pollState, templateBody, request>>
                 ELSE FrameDropped
    /\ UNCHANGED <<input, timers>>

\* DetectDriftAll: `for _, stackName := range stacks`, then d.DetectDrift or return
DetectDriftAllLoop ==
    /\ mode = "drift"
    /\ pc = "loop"
    /\ pc' = IF idx > Len(stacks) THEN "done" ELSE "exists"
    /\ UNCHANGED <<input, idx, results, batchErr, wfErr, locals, timers, requested>>

\* DetectDrift: d.stackExists(ctx, stackName) and the `if !exists` return
DetectDriftStackExists ==
    /\ mode = "drift"
    /\ pc = "exists"
    /\ \E resp \in DescribeStacks(stacks[idx], ctxDone) :
          LET r == stackExists(resp)
          IN  /\ existsErr' = resp.err
              /\ exists' = r.exists
              /\ LET e == DetectDriftPrecondition(stacks[idx], r)
                 IN  IF e # Nil
                     THEN DetectDriftReturns(NoResult, e)
                     ELSE /\ pc' = "detect"
                          /\ UNCHANGED <<idx, results, batchErr, wfErr>>
    /\ calls' = Bump(calls, "exists")
    /\ requested' = requested \cup {idx}
    /\ UNCHANGED <<input, stackID, status, driftStatus, pollState, timers,
                   templateBody, request>>

\* DetectDrift: cfnClient.DetectStackDrift, then entry into waitForDriftDetection
DetectStackDrift ==
    /\ pc = "detect"
    /\ calls' = Bump(calls, "detect")
    /\ request' = DetectStackDriftInput(stacks[idx])
    /\ \E resp \in DetectResponses(stacks[idx], ctxDone) :
          IF resp.err # Nil
          THEN /\ DetectDriftReturns(NoResult,
                      Wrap("failed to initiate drift detection", "", resp.err))
               /\ UNCHANGED <<stackID, pollState, existsErr>>
          ELSE /\ stackID' = resp.StackDriftDetectionId
               /\ pc' = "waitDrift"
               /\ pollState' = "Pending"
               /\ existsErr' = Nil
               /\ UNCHANGED <<idx, results, batchErr, wfErr>>
    /\ requested' = requested \cup {idx}
    /\ UNCHANGED <<input, exists, status, driftStatus, timers, templateBody>>

\* DetectDrift without the two checks after waitForDriftDetection: always on
\* to getDriftResults
waitForDriftReturns_IgnoresError(ps, st, e) ==
    /\ pollState' = ps
    /\ status' = st
    /\ now' = 0
    /\ tickReady' = FALSE
    /\ queries' = 0
    /\ pc' = "driftDescribe"
    /\ UNCHANGED <<idx, results, batchErr, wfErr>>

\* waitForDriftDetection returns (st, e) in poller state ps; DetectDrift goes
\* on (the status is DETECTION_COMPLETE) or returns
waitForDriftReturns(ps, st, e) ==
    /\ pollState' = ps
    /\ status' = st
    /\ now' = 0
    /\ tickReady' = FALSE
    /\ queries' = 0
    /\ IF e # Nil
       THEN DetectDriftReturns(NoResult, e)
       ELSE IF st # "DETECTION_COMPLETE"
       THEN DetectDriftReturns(NoResult,
                               Errorf("drift detection failed with status", st))
       ELSE /\ pc' = "driftDescribe"
            /\ UNCHANGED <<idx, results, batchErr, wfErr>>

\* waitForDriftDetection: case <-ctx.Done()
WaitForDriftCtxDone ==
    /\ pc = "waitDrift"
    /\ ctxDone
    /\ waitForDriftReturns("Cancelled", "", Canceled)
    /\ UNCHANGED <<input, exists, existsErr, stackID, driftStatus, calls, requested,
                   templateBody, request>>

\* waitForDriftDetection: case <-timeout
WaitForDriftTimeout ==
    /\ pc = "waitDrift"
    /\ now >= DriftTimeout
    /\ waitForDriftReturns("TimedOut", "",
                           Errorf("timeout waiting for drift detection", ""))
    /\ UNCHANGED <<input, exists, existsErr, stackID, driftStatus, calls, requested,
                   templateBody, request>>

\* a waitForDriftDetection that makes its first status query on entry, before
\* any tick
WaitForDriftTick_QueriesOnEntry ==
    /\ pc = "waitDrift"
    /\ tickReady \/ queries = 0
    /\ requested' = requested \cup {idx}
    /\ \E resp \in DetectionStatusResponses(stackID, ctxDone) :
          LET t == waitForDriftTick(resp)
          IN  IF t.state = "Pending"
              THEN /\ status' = t.status
                   /\ tickReady' = FALSE
                   /\ queries' = queries + 1
                   /\ UNCHANGED <<pc, idx, results, batchErr, wfErr, pollState, now>>
              ELSE waitForDriftReturns(t.state, t.status, t.err)
    /\ UNCHANGED <<input, exists, existsErr, stackID, driftStatus, calls,
                   templateBody, request>>

\* waitForDriftDetection: case <-ticker.C
WaitForDriftTick ==
    /\ pc = "waitDrift"
    /\ tickReady
    /\ requested' = requested \cup {idx}
    /\ \E resp \in DetectionStatusResponses(stackID, ctxDone) :
          LET t == waitForDriftTick(resp)
          IN  IF t.state = "Pending"
              THEN /\ status' = t.status
                   /\ tickReady' = FALSE
                   /\ queries' = queries + 1
                   /\ UNCHANGED <<pc, idx, results, batchErr, wfErr, pollState, now>>
              ELSE waitForDriftReturns(t.state, t.status, t.err)
    /\ UNCHANGED <<input, exists, existsErr, stackID, driftStatus, calls,
                   templateBody, request>>

\* getDriftResults: cfnClient.DescribeStacks and the stack's drift status
GetDriftDescribe ==
    /\ pc = "driftDescribe"
    /\ calls' = Bump(calls, "describe")
    /\ requested' = requested \cup {idx}
    /\ \E resp \in DescribeStacks(stacks[idx], ctxDone) :
          IF resp.err # Nil
          THEN /\ DetectDriftReturns(NoResult,
                                     Wrap("failed to describe stack", "", resp.err))
               /\ UNCHANGED driftStatus
          ELSE IF Len(resp.Stacks) = 0
          THEN /\ DetectDriftReturns(NoResult, Errorf("stack not found", stacks[idx]))
               /\ UNCHANGED driftStatus
          ELSE /\ driftStatus' = resp.Stacks[1].StackDriftStatus
               /\ pc' = "driftResources"
               /\ UNCHANGED <<idx, results, batchErr, wfErr>>
    /\ UNCHANGED <<input, exists, existsErr, stackID, status, pollState, timers,
                   templateBody, request>>

\* getDriftResults: cfnClient.DescribeStackResourceDrifts and the DriftResult
GetDriftResources ==
    /\ pc = "driftResources"
    /\ requested' = requested \cup {idx}
    /\ \E resp \in ResourceDriftsResponses(stacks[idx], DriftFilters, ctxDone) :
          IF resp.err # Nil
          THEN /\ DetectDriftReturns(NoResult,
                                     Wrap("failed to get resource drifts", "", resp.err))
               /\ calls' = Bump(calls, "drifts")
               /\ UNCHANGED <<exists, existsErr, stackID, status, driftStatus, pollState,
                              templateBody, request>>
          ELSE /\ DetectDriftReturns(
                      DriftResult(stacks[idx], driftStatus,
                                  ProjectDrifts(resp.StackResourceDrifts, NilSlice)),
                      Nil)
               /\ FrameDropped
    /\ UNCHANGED <<input, timers>>

Next ==
    \/ Cancel
    \/ DeployAllLoop
    \/ GetTemplateBody
    \/ DeployStackExists
    \/ SubmitStack
    \/ TickerFires
    \/ WaitForStackCtxDone
    \/ WaitForStackTimeout
    \/ WaitForStackTick
    \/ GetStackOutputs
    \/ DetectDriftAllLoop
    \/ DetectDriftStackExists
    \/ DetectStackDrift
    \/ WaitForDriftCtxDone
    \/ WaitForDriftTimeout
    \/ WaitForDriftTick
    \/ GetDriftDescribe
    \/ GetDriftResources

Spec == Init /\ [][Next]_vars

(***************************************************************************)
(* The batch under fair scheduling: the goroutine of the batch is never     *)
(* held up for ever.  Every remote call returns, the runtime delivers the   *)
(* tick and the deadline, and a select with a ready case takes one.  The    *)
(* signal is not required to arrive.                                        *)
(***************************************************************************)
Progress ==
    \/ DeployAllLoop
    \/ GetTemplateBody
    \/ DeployStackExists
    \/ SubmitStack
    \/ TickerFires
    \/ WaitForStackCtxDone
    \/ WaitForStackTimeout
    \/ WaitForStackTick
    \/ GetStackOutputs
    \/ DetectDriftAllLoop
    \/ DetectDriftStackExists
    \/ DetectStackDrift
    \/ WaitForDriftCtxDone
    \/ WaitForDriftTimeout
    \/ WaitForDriftTick
    \/ GetDriftDescribe
    \/ GetDriftResources

FairSpec == Init /\ [][Next]_vars /\ WF_vars(Progress)

(***************************************************************************)
(* run: clone, initialize, the command, and the deferred cleanup.          *)
(***************************************************************************)
Commands == {"synth", "deploy", "drift", "destroy"}

\* results of cdkApp.Synth
SynthResponses ==
    {[err |-> Errorf("cdk synth failed", ""), Stacks |-> <<>>]}
    \cup {[err |-> Nil, Stacks |-> l] : l \in StackLists}

RunInit ==
    /\ mode = ""
    /\ stacks = <<>>
    /\ ctxDone = FALSE
    /\ idx = 1
    /\ pc = "loop"
    /\ results = <<>>
    /\ batchErr = Nil
    /\ wfErr = <<>>
    /\ exists = FALSE
    /\ existsErr = Nil
    /\ stackID = ""
    /\ status = ""
    /\ driftStatus = ""
    /\ now = 0
    /\ tickReady = FALSE
    /\ queries = 0
    /\ pollState = "Idle"
    /\ calls = NoCalls
    /\ requested = {}
    /\ templateBody = ""
    /\ request = NoRequest
    /\ runPc = "clone"
    /\ cleanup \in BOOLEAN
    /\ dirExists = FALSE
    /\ cleanupCalls = 0
    /\ cleanupWarned = FALSE
    /\ runErr = Nil

batchVars == <<idx, pc, results, batchErr, wfErr, locals, timers, requested>>

\* a run whose deferred cleanup is skipped when run returns an error
RunReturns_CleanupOnSuccessOnly(e) ==
    /\ runErr' = e
    /\ runPc' = "returned"
    /\ IF cleanup /\ e = Nil
       THEN /\ cleanupCalls' = cleanupCalls + 1
            /\ \E failed \in BOOLEAN :
                  /\ dirExists' = failed
                  /\ cleanupWarned' = failed
       ELSE UNCHANGED <<dirExists, cleanupCalls, cleanupWarned>>
    /\ UNCHANGED cleanup

\* run returns e after the clone: the deferred function runs if -cleanup is set
RunReturns(e) ==
    /\ runErr' = e
    /\ runPc' = "returned"
    /\ IF cleanup
       THEN /\ cleanupCalls' = cleanupCalls + 1
            /\ \E failed \in BOOLEAN :
                  /\ dirExists' = failed
                  /\ cleanupWarned' = failed
       ELSE UNCHANGED <<dirExists, cleanupCalls, cleanupWarned>>
    /\ UNCHANGED cleanup

\* main: the signal goroutine calls cancel() while run is outside the batch
RunSignal ==
    /\ runPc \in {"clone", "initialize", "command", "deployer"}
    /\ ~ctxDone
    /\ ctxDone' = TRUE
    /\ UNCHANGED <<mode, stacks, batchVars, runVars>>

\* run: git.CloneRepository; on an error run returns before the defer
CloneRepository ==
    /\ runPc = "clone"
    /\ \E e \in {Nil, Errorf("failed to clone repository", "")} :
          IF e # Nil
          THEN /\ runErr' = Wrap("failed to clone repository", "", e)
               /\ runPc' = "returned"
               /\ UNCHANGED dirExists
          ELSE /\ dirExists' = TRUE
               /\ runPc' = "initialize"
               /\ UNCHANGED runErr
    /\ UNCHANGED <<mode, stacks, ctxDone, batchVars, cleanup, cleanupCalls,
                   cleanupWarned>>

\* run: cdkApp.Initialize
Initialize ==
    /\ runPc = "initialize"
    /\ \E e \in {Nil, Errorf("failed to detect project type", ""),
                  Errorf("failed to install dependencies", "")} :
          IF e # Nil
          THEN RunReturns(Wrap("failed to initialize CDK project", "", e))
          ELSE /\ runPc' = "command"
               /\ UNCHANGED <<cleanup, dirExists, cleanupCalls, cleanupWarned, runErr>>
    /\ UNCHANGED <<mode, stacks, ctxDone, batchVars>>

\* run: `switch command` up to the call of cdkApp.Deploy / cdkApp.DetectDrift
RunCommand ==
    /\ runPc = "command"
    /\ \E command \in Commands, stackName \in {""} \cup StackIds :
          /\ mode' = command
          /\ IF command \notin {"synth", "deploy", "drift"}
             THEN /\ RunReturns(Errorf("unknown command", command))
                  /\ UNCHANGED stacks
             ELSE IF command = "drift" /\ stackName # ""
             THEN /\ stacks' = <<stackName>>
                  /\ runPc' = "deployer"
                  /\ UNCHANGED <<cleanup, dirExists, cleanupCalls, cleanupWarned,
                                 runErr>>
             ELSE \E resp \in SynthResponses :
                     IF resp.err # Nil
                     THEN /\ RunReturns(Wrap("synthesis failed", "", resp.err))
                          /\ UNCHANGED stacks
                     ELSE IF command = "synth"
                     THEN /\ RunReturns(Nil)
                          /\ UNCHANGED stacks
                     ELSE /\ stacks' = resp.Stacks
                          /\ runPc' = "deployer"
                          /\ UNCHANGED <<cleanup, dirExists, cleanupCalls,
                                         cleanupWarned, runErr>>
    /\ UNCHANGED <<ctxDone, batchVars>>

\* CDK.Deploy / CDK.DetectDrift: NewDeployer, then the batch
NewDeployer ==
    /\ runPc = "deployer"
    /\ \E e \in {Nil, Errorf("failed to load AWS config", "")} :
          IF e # Nil
          THEN RunReturns(Wrap(IF mode = "deploy" THEN "deployment failed"
                               ELSE "drift detection failed", "", e))
          ELSE /\ runPc' = "batch"
               /\ UNCHANGED <<cleanup, dirExists, cleanupCalls, cleanupWarned, runErr>>
    /\ UNCHANGED <<mode, stacks, ctxDone, batchVars>>

\* DeployAll / DetectDriftAll at work inside run
BatchStep ==
    /\ runPc = "batch"
    /\ Next

\* run: DeployAll / DetectDriftAll has returned
BatchReturns ==
    /\ runPc = "batch"
    /\ pc = "done"
    /\ RunReturns(IF batchErr = Nil THEN Nil
                  ELSE Wrap(IF mode = "deploy" THEN "deployment failed"
                            ELSE "drift detection failed", "", batchErr))
    /\ UNCHANGED <<mode, stacks, ctxDone, batchVars>>

RunNext ==
    \/ RunSignal
    \/ CloneRepository
    \/ Initialize
    \/ RunCommand
    \/ NewDeployer
    \/ BatchStep
    \/ BatchReturns

RunSpec == RunInit /\ [][RunNext]_vars


(***************************************************************************)
(* Properties of the batch loops.                                          *)
(***************************************************************************)
\* C1: once the workflow of the stack at position i has failed, no request of
\* any kind has been sent, or is ever sent, for a stack at a position after i.
C1_NoRequestAfterFailure ==
    \A i \in 1..Len(wfErr) :
        wfErr[i] # Nil => \A p \in requested : p <= i

\* the first of two stacks failed and the second was never touched
C1_Witness ==
    /\ pc = "done"
    /\ Len(stacks) = 2
    /\ Len(wfErr) = 1
    /\ wfErr[1] # Nil
    /\ requested = {1}

\* C2: the batch returns one outcome per stack of the longest prefix of
\* workflows that succeeded, in list order, result k being that of stack k;
\* its error is nil exactly when that prefix is the whole list, and otherwise
\* names the first failing stack and wraps that workflow's own error.
C2_FailFastKeepPartial ==
    pc = "done" =>
        LET n == Len(results)
        IN  /\ n <= Len(stacks)
            /\ \A k \in 1..n :
                  /\ wfErr[k] = Nil
                  /\ results[k].StackName = stacks[k]
                  /\ mode = "deploy" => results[k].StackID = StackArn(stacks[k])
                  /\ mode = "drift" =>
                        results[k].DriftStatus = RemoteDriftStatus(stacks[k])
            /\ (batchErr = Nil) <=> (n = Len(stacks))
            /\ batchErr = Nil => Len(wfErr) = n
            /\ batchErr # Nil =>
                  /\ Len(wfErr) = n + 1
                  /\ wfErr[n + 1] # Nil
                  /\ Head(batchErr).arg = stacks[n + 1]
                  /\ Tail(batchErr) = wfErr[n + 1]

\* [A, B] given to DetectDriftAll: A's outcome is returned with an error naming B
C2_Witness ==
    /\ pc = "done"
    /\ mode = "drift"
    /\ stacks = <<"A", "B">>
    /\ Len(results) = 1
    /\ results[1].StackName = "A"
    /\ batchErr # Nil
    /\ Head(batchErr).arg = "B"

(***************************************************************************)
(* Properties of the pollers.                                              *)
(***************************************************************************)
\* C3: a status of the success set ends waitForStack Succeeded with that
\* status, a status of the failure set ends it Failed with an error carrying
\* the status, in both cases with no further query; any other status leaves it
\* Pending, and a Pending poller has issued exactly one query per poll
\* interval elapsed.
C3_StatusDecidesPoller ==
    mode = "deploy" =>
        /\ status \in SuccessStatuses =>
              /\ pollState = "Succeeded"
              /\ pc \in {"outputs", "done"}
        /\ status \in FailureStatuses =>
              /\ pollState = "Failed"
              /\ pc = "done"
              /\ wfErr[idx] = Errorf("stack operation failed with status", status)
        /\ status \in OtherStatuses =>
              /\ pollState = "Pending"
              /\ pc = "waitStack"
        /\ pollState = "Succeeded" => status \in SuccessStatuses
        /\ pollState = "Failed" => status \in FailureStatuses
        /\ pc = "waitStack" =>
              queries * StackPollInterval =
                  (IF tickReady THEN now - StackPollInterval ELSE now)

\* the poller saw IMPORT_COMPLETE on its second query and waits for a third
C3_Witness ==
    /\ pc = "waitStack"
    /\ pollState = "Pending"
    /\ status = "IMPORT_COMPLETE"
    /\ queries = 2
    /\ tickReady

\* C4: waitForStack never reports Succeeded or Failed from a status query made
\* after its deadline has fired.
C4_NoVerdictAfterDeadline ==
    [][(pc = "waitStack" /\ now >= StackTimeout)
          => pollState' \notin {"Succeeded", "Failed"}]_vars

\* C5: whenever cancellation is signalled while a poller waits, the poller
\* returns the cancellation outcome, whatever else is ready.
C5_CancellationPreempts ==
    [][(pc \in {"waitStack", "waitDrift"} /\ ctxDone /\ pc' # pc)
          => pollState' = "Cancelled"]_vars

\* C6: a workflow that ends at a context-bound step while the context is
\* cancelled returns an error that carries the cancellation cause and is no
\* timeout, no terminal status failure and no `stack does not exist`.
C6_CancellationCauseReported ==
    [][(ctxDone /\ pc \in {"exists", "submit", "detect", "waitStack", "waitDrift",
                           "outputs", "driftDescribe", "driftResources"}
               /\ pc' = "done")
          => /\ ErrorIs(batchErr', "context canceled")
             /\ ~ErrorIs(batchErr', "stack does not exist")
             /\ ~ErrorIs(batchErr', "timeout waiting for stack")
             /\ ~ErrorIs(batchErr', "timeout waiting for drift detection")
             /\ ~ErrorIs(batchErr', "stack operation failed with status")]_vars

\* C7: a failed status query ends the poller, the workflow and the batch on
\* that tick with the query's error; a poller that goes on waiting after a
\* tick has observed a status on that tick.
C7_QueryErrorEndsPoller ==
    /\ pollState = "QueryError" =>
          /\ pc = "done"
          /\ \/ ErrorIs(wfErr[idx], "failed to describe stack")
             \/ wfErr[idx] = Errorf("stack not found", stacks[idx])
             \/ ErrorIs(wfErr[idx], "failed to get drift detection status")
          /\ Tail(batchErr) = wfErr[idx]
    /\ (pc \in {"waitStack", "waitDrift"} /\ queries > 0) =>
          status \in OtherStatuses \cup {"DETECTION_IN_PROGRESS"}

\* the third status query of waitForStack found no stack
C7_Witness ==
    /\ pollState = "QueryError"
    /\ pc = "done"
    /\ mode = "deploy"
    /\ wfErr[idx] = Errorf("stack not found", stacks[idx])

(***************************************************************************)
(* Properties of the submission.                                           *)
(***************************************************************************)
\* C8: Deploy sends a create request when stackExists reported the stack
\* absent and an update request when it reported it present, never both and
\* never the other one.
C8_CreateXorUpdate ==
    mode = "deploy" =>
        /\ calls["create"] + calls["update"] <= 1
        /\ calls["create"] = 1 => ~exists
        /\ calls["update"] = 1 => exists
        /\ pc \in {"waitStack", "outputs"} =>
              calls["create"] + calls["update"] = 1

\* an update was submitted for a stack reported present
C8_Witness ==
    /\ mode = "deploy"
    /\ pc = "waitStack"
    /\ exists
    /\ calls["update"] = 1
    /\ calls["create"] = 0

C10_NoRemoteErrorDropped ==
    (existsErr # Nil /\ existsErr # Errorf("ValidationError: stack does not exist", ""))
    =>  /\ pc = "done"
        /\ \A i \in 1..Len(existsErr) : ErrorIs(batchErr, existsErr[i].msg)
        /\ calls["create"] + calls["update"] + calls["detect"] = 0

(***************************************************************************)
(* Properties of Deploy after the poller.                                  *)
(***************************************************************************)
\* C11: a Deploy whose poller observed a status of the failure set returns an
\* error carrying that status and never calls getStackOutputs; getStackOutputs
\* is called only after the poller ended Succeeded.
C11_OutputsOnlyAfterSuccess ==
    mode = "deploy" =>
        /\ pollState = "Failed" =>
              /\ pc = "done"
              /\ status \in FailureStatuses
              /\ wfErr[idx] = Errorf("stack operation failed with status", status)
              /\ Tail(batchErr) = wfErr[idx]
              /\ calls["outputs"] = 0
              /\ Len(results) = idx - 1
        /\ (pc = "outputs" \/ calls["outputs"] > 0) =>
              /\ pollState = "Succeeded"
              /\ status \in SuccessStatuses

\* an update of an existing stack ended in UPDATE_ROLLBACK_FAILED
C11_Witness ==
    /\ mode = "deploy"
    /\ pc = "done"
    /\ pollState = "Failed"
    /\ exists
    /\ calls["update"] = 1
    /\ status = "UPDATE_ROLLBACK_FAILED"
    /\ batchErr = Wrap("failed to deploy stack", stacks[idx],
                       Errorf("stack operation failed with status",
                              "UPDATE_ROLLBACK_FAILED"))
    /\ calls["outputs"] = 0

\* C12: when the statuses observed by waitForStack are non-terminal ones
\* followed by a value of the success set, the poller returns on the query
\* that observed that value, one query per interval having been made before
\* it, and the Deploy that then fetches the outputs returns no error and a
\* DeployResult whose Status is that value, whose StackName is the requested
\* stack and whose StackID is the handle the create or update returned.
C12_SuccessYieldsResult ==
    [][/\ (pc = "waitStack" /\ pc' = "outputs") =>
             /\ tickReady
             /\ ~ctxDone
             /\ now = (queries + 1) * StackPollInterval
             /\ queries > 0 => status \in OtherStatuses
             /\ status' \in SuccessStatuses
             /\ pollState' = "Succeeded"
             /\ stackID' = StackArn(stacks[idx])
       /\ (mode = "deploy" /\ pc = "outputs" /\ pc' # "outputs") =>
             \/ /\ pc' = "done"
                /\ ErrorIs(batchErr', "failed to describe stack")
             \/ /\ pc' = "loop"
                /\ batchErr' = Nil
                /\ wfErr' = Append(wfErr, Nil)
                /\ Len(results') = Len(results) + 1
                /\ SubSeq(results', 1, Len(results)) = results
                /\ LET res == results'[Len(results')]
                   IN  /\ res.StackName = stacks[idx]
                       /\ res.StackID = StackArn(stacks[idx])
                       /\ res.Status = status
                       /\ res.Status \in SuccessStatuses]_vars

\* a created stack reached CREATE_COMPLETE and its DeployResult was returned
C12_Witness ==
    /\ mode = "deploy"
    /\ pc = "done"
    /\ batchErr = Nil
    /\ stacks = <<"A">>
    /\ results = <<[StackName |-> "A", StackID |-> "arn:A",
                    Status |-> "CREATE_COMPLETE",
                    Outputs |-> [isNil |-> FALSE,
                                 elems |-> <<[Key |-> "K1", Value |-> "V1"],
                                             [Key |-> "K2", Value |-> "V2"]>>]]>>

\* C13: the Outputs of a returned DeployResult are the outputs the remote
\* reports for the stack, as Key/Value pairs in the same order and number,
\* and are an empty sequence, not a nil one, when the remote reports none.
C13_OutputsMirrorRemote ==
    mode = "deploy" =>
        \A k \in 1..Len(results) :
            LET remote == RemoteOutputs(stacks[k])
                outs == results[k].Outputs
            IN  /\ remote = <<>> => outs = [isNil |-> FALSE, elems |-> <<>>]
                /\ (remote # <<>> /\ ~outs.isNil) =>
                      /\ Len(outs.elems) = Len(remote)
                      /\ \A i \in 1..Len(remote) :
                            /\ outs.elems[i].Key = remote[i].OutputKey
                            /\ outs.elems[i].Value = remote[i].OutputValue

\* C14: a Deploy whose output fetch cannot find the stack (the query fails or
\* returns no stacks) returns an error, so every DeployResult returned was
\* built from the description of a stack that was found: the result of a
\* stack that has outputs holds them, and a failed fetch leaves no result.
C14_NotFoundAtFetchFails ==
    mode = "deploy" =>
        /\ \A k \in 1..Len(results) :
              RemoteOutputs(stacks[k]) # <<>> => ~results[k].Outputs.isNil
        /\ calls["outputs"] > 0 =>
              /\ pc = "done"
              /\ Len(results) = idx - 1
              /\ ErrorIs(batchErr, "failed to describe stack")

(***************************************************************************)
(* Properties of DetectDrift.                                              *)
(***************************************************************************)
\* C15: DetectDrift checks existence before anything else; when the stack is
\* reported absent it returns an error naming the stack, and no detect-drift
\* request, no polling and no fetch of drift results takes place.
C15_AbsentStackNoDetection ==
    mode = "drift" =>
        /\ (pc \in {"detect", "waitDrift", "driftDescribe", "driftResources"}
              \/ calls["detect"] + calls["describe"] + calls["drifts"] > 0
              \/ pollState # "Idle") =>
              /\ calls["exists"] = 1
              /\ exists
        /\ (calls["exists"] = 1 /\ ~exists) =>
              /\ pc = "done"
              /\ wfErr[idx] = Errorf("stack does not exist", stacks[idx])
              /\ batchErr = Wrap("failed to detect drift for stack", stacks[idx],
                                 wfErr[idx])
              /\ calls["detect"] + calls["describe"] + calls["drifts"] = 0
              /\ pollState = "Idle"
              /\ Len(results) = idx - 1

\* the second stack of [A, B] was reported absent: A's result, an error for B
C15_Witness ==
    /\ mode = "drift"
    /\ pc = "done"
    /\ stacks = <<"A", "B">>
    /\ idx = 2
    /\ calls["exists"] = 1
    /\ ~exists
    /\ Len(results) = 1
    /\ wfErr[2] = Errorf("stack does not exist", "B")
    /\ calls["detect"] = 0

\* C16: waitForDriftDetection queries the detection job DetectDrift started;
\* DETECTION_COMPLETE ends it Succeeded, DETECTION_FAILED ends it Failed with
\* an error carrying the remote's reason, in both cases with no further
\* query; any other status leaves it Pending, and a Pending poller has issued
\* exactly one query per poll interval elapsed.
C16_DetectionStatusDecidesPoller ==
    mode = "drift" =>
        /\ status = "DETECTION_COMPLETE" =>
              /\ pollState = "Succeeded"
              /\ pc \in {"driftDescribe", "driftResources", "done"}
        /\ status = "DETECTION_FAILED" =>
              /\ pollState = "Failed"
              /\ pc = "done"
              /\ wfErr[idx] = Errorf("drift detection failed", DetectionReason)
              /\ Tail(batchErr) = wfErr[idx]
        /\ status = "DETECTION_IN_PROGRESS" =>
              /\ pollState = "Pending"
              /\ pc = "waitDrift"
        /\ pollState = "Succeeded" => status = "DETECTION_COMPLETE"
        /\ pollState = "Failed" => status = "DETECTION_FAILED"
        /\ pc = "waitDrift" =>
              /\ stackID = DetectionId(stacks[idx])
              /\ queries * DriftPollInterval =
                    (IF tickReady THEN now - DriftPollInterval ELSE now)

\* the detection failed and the remote's reason is in the batch's error
C16_Witness ==
    /\ mode = "drift"
    /\ pc = "done"
    /\ pollState = "Failed"
    /\ status = "DETECTION_FAILED"
    /\ stackID = DetectionId(stacks[idx])
    /\ batchErr = Wrap("failed to detect drift for stack", stacks[idx],
                       Errorf("drift detection failed", "internal failure"))

C18_DriftRecordsCopied ==
    mode = "drift" =>
        \A k \in 1..Len(results) :
            LET recs == FilterDrifts(RemoteResourceDrifts(stacks[k]),
                                    {"MODIFIED", "DELETED", "NOT_CHECKED"})
                dr == results[k].DriftedResources.elems
            IN  /\ results[k].StackName = stacks[k]
                /\ results[k].DriftStatus = RemoteDriftStatus(stacks[k])
                /\ Len(dr) = Len(recs)
                /\ \A j \in 1..Len(recs) :
                      LET pds == recs[j].PropertyDifferences
                          diffs == dr[j].PropertyDiffs.elems
                      IN  /\ dr[j].LogicalID = recs[j].LogicalResourceId
                          /\ dr[j].PhysicalID = recs[j].PhysicalResourceId
                          /\ dr[j].ResourceType = recs[j].ResourceType
                          /\ dr[j].DriftStatus = recs[j].StackResourceDriftStatus
                          /\ Len(diffs) = Len(pds)
                          /\ \A i \in 1..Len(pds) :
                                /\ diffs[i].PropertyPath = pds[i].PropertyPath
                                /\ diffs[i].ExpectedValue = pds[i].ExpectedValue
                                /\ diffs[i].ActualValue = pds[i].ActualValue
                                /\ diffs[i].DifferenceType = pds[i].DifferenceType

\* A's result: Fn first, with its two property differences in order
C18_Witness ==
    /\ mode = "drift"
    /\ pc = "done"
    /\ batchErr = Nil
    /\ stacks = <<"A">>
    /\ results[1].DriftStatus = "DRIFTED"
    /\ Len(results[1].DriftedResources.elems) = 3
    /\ results[1].DriftedResources.elems[1].LogicalID = "Fn"
    /\ results[1].DriftedResources.elems[1].PropertyDiffs.elems =
          <<[PropertyPath |-> "Properties.Timeout", ExpectedValue |-> "30",
             ActualValue |-> "60", DifferenceType |-> "NOT_EQUAL"],
            [PropertyPath |-> "Properties.Memory", ExpectedValue |-> "128",
             ActualValue |-> "", DifferenceType |-> "REMOVE"]>>

\* C19: getDriftResults is called only after waitForDriftDetection ended
\* Succeeded for the detection job this DetectDrift call started; when the
\* detection fails, a status query fails, the deadline passes or the context
\* is cancelled, no drift results are fetched and no DriftResult is returned.
C19_ResultsOnlyAfterDetection ==
    mode = "drift" =>
        /\ (pc \in {"driftDescribe", "driftResources"}
              \/ calls["describe"] + calls["drifts"] > 0) =>
              /\ pollState = "Succeeded"
              /\ status = "DETECTION_COMPLETE"
              /\ calls["detect"] = 1
              /\ stackID = DetectionId(stacks[idx])
        /\ pollState \in {"Failed", "QueryError", "TimedOut", "Cancelled"} =>
              /\ pc = "done"
              /\ calls["describe"] + calls["drifts"] = 0
              /\ Len(results) = idx - 1
              /\ wfErr[idx] # Nil
              /\ Tail(batchErr) = wfErr[idx]

\* the drift poller of the second stack timed out: only A's result is returned
C19_Witness ==
    /\ mode = "drift"
    /\ pc = "done"
    /\ idx = 2
    /\ pollState = "TimedOut"
    /\ calls["detect"] = 1
    /\ calls["describe"] = 0
    /\ Len(results) = 1
    /\ wfErr[2] = Errorf("timeout waiting for drift detection", "")

(***************************************************************************)
(* The status sets of waitForStack.                                        *)
(***************************************************************************)
\* C20: waitForStack goes on polling only after observing an in-progress
\* status: a status that is terminal at the remote, IMPORT_COMPLETE included,
\* ends the poller instead of leaving it waiting for the deadline, and only
\* CREATE_COMPLETE and UPDATE_COMPLETE end it Succeeded.
C20_PollsOnlyWhileInProgress ==
    mode = "deploy" =>
        /\ (pc = "waitStack" /\ queries > 0) =>
              status \in {"CREATE_IN_PROGRESS", "UPDATE_IN_PROGRESS"}
        /\ pollState = "Succeeded" =>
              status \in {"CREATE_COMPLETE", "UPDATE_COMPLETE"}

(***************************************************************************)
(* The query budget of the pollers.                                        *)
(***************************************************************************)
\* C21 as stated: interval and deadline being 10 and 30 (5 and 10) of the same
\* unit, waitForStack makes at most 3 status queries and
\* waitForDriftDetection at most 2.
C21_SameUnitBudget ==
    /\ pc = "waitStack" => queries <= 3
    /\ pc = "waitDrift" => queries <= 2

\* C21: the intervals are 10 and 5 seconds and the deadlines 30 and 10
\* minutes, so a stack that never leaves a non-terminal status is queried at
\* most 180 times before waitForStack ends, and a detection that never
\* completes at most 120 times before waitForDriftDetection ends; no tick is
\* waited for beyond the deadline.
C21_SecondsUnderMinutes ==
    /\ pc = "waitStack" =>
          /\ queries <= 180
          /\ now <= 30 * 60
          /\ queries * 10 <= now
    /\ pc = "waitDrift" =>
          /\ queries <= 120
          /\ now <= 10 * 60
          /\ queries * 5 <= now

\* the stack was still CREATE_IN_PROGRESS on the 180th query, at 1800 s
C21_Witness ==
    /\ pc = "waitStack"
    /\ status = "CREATE_IN_PROGRESS"
    /\ queries = 180
    /\ now = 1800

\* C22: waitForStack receives a tick every 10 seconds and its timeout case
\* can be taken only from 30 minutes on, when 179 or 180 status queries have
\* found the status non-terminal; waitForDriftDetection receives a tick every
\* 5 seconds and can time out only from 10 minutes on, after 119 or 120
\* queries.
C22_DocumentedBudget ==
    [][/\ (pc = "waitStack" /\ pc' = pc /\ now' # now) => now' = now + 10
       /\ (pc = "waitDrift" /\ pc' = pc /\ now' # now) => now' = now + 5
       /\ (pc = "waitStack" /\ pollState' = "TimedOut") =>
             /\ now >= 1800
             /\ queries \in {179, 180}
             /\ queries > 0 => status \in OtherStatuses
       /\ (pc = "waitDrift" /\ pollState' = "TimedOut") =>
             /\ now >= 600
             /\ queries \in {119, 120}
             /\ queries > 0 => status = "DETECTION_IN_PROGRESS"]_vars

\* a detection that stayed in progress for ten minutes timed out
C22_Witness ==
    /\ mode = "drift"
    /\ stacks = <<"A">>
    /\ pc = "done"
    /\ pollState = "TimedOut"
    /\ batchErr = Wrap("failed to detect drift for stack", "A",
                       Errorf("timeout waiting for drift detection", ""))

(***************************************************************************)
(* Where cancellation and the deadline are observed.                       *)
(***************************************************************************)
\* C23 as stated: a cancellation signalled while the workflow is at a step
\* other than a poll wait does not change the outcome of that step: no such
\* step fails with the cancellation cause.
C23_CancellationOnlyAtPollWaits ==
    [][(ctxDone /\ pc \in {"exists", "submit", "detect", "outputs",
                            "driftDescribe", "driftResources"})
          => ~ErrorIs(batchErr', "context canceled")]_vars

\* C23: the deadline ends a workflow only at the select of a poller; a
\* cancellation is observed there and by every remote call made with the
\* cancelled context: the submission, the output fetch and the drift-result
\* fetch fail and end the workflow with an error carrying the cancellation
\* cause, the existence check fails and is read as absence, and a poller ends
\* Cancelled, TimedOut or on the failed status query; only the template read
\* is not affected.
C23_CancellationFailsRemoteCalls ==
    [][/\ (ctxDone /\ pc \in {"submit", "detect", "outputs", "driftDescribe",
                               "driftResources"} /\ pc' # pc)
             => /\ pc' = "done"
                /\ results' = results
                /\ ErrorIs(batchErr', "context canceled")
       /\ (ctxDone /\ pc = "exists" /\ pc' # pc)
             => /\ existsErr' = Canceled
                /\ ~exists'
                /\ mode = "deploy" => pc' = "submit"
                /\ mode = "drift" =>
                      /\ pc' = "done"
                      /\ batchErr' = Wrap("failed to detect drift for stack",
                                          stacks[idx],
                                          Errorf("stack does not exist", stacks[idx]))
       /\ (ctxDone /\ pc \in {"waitStack", "waitDrift"} /\ pc' # pc)
             => /\ pc' = "done"
                /\ pollState' \in {"Cancelled", "TimedOut", "QueryError"}
       /\ (ctxDone /\ pc = "template" /\ pc' # pc)
             => \/ pc' = "exists"
                \/ /\ pc' = "done"
                   /\ ErrorIs(batchErr', "failed to read template for stack")
                   /\ ~ErrorIs(batchErr', "context canceled")
       /\ (pollState' = "TimedOut" /\ pollState # "TimedOut")
             => pc \in {"waitStack", "waitDrift"}]_vars

\* the context was cancelled after the poller succeeded: the output fetch failed
C23_Witness ==
    /\ mode = "deploy"
    /\ ctxDone
    /\ pc = "done"
    /\ pollState = "Succeeded"
    /\ calls["outputs"] = 1
    /\ batchErr = Wrap("failed to deploy stack", stacks[idx],
                       Wrap("failed to describe stack", "", Canceled))

(***************************************************************************)
(* Mutating requests.                                                      *)
(***************************************************************************)
\* C24: the workflow of one position of the list sends at most one mutating
\* request, a create or an update in Deploy and a detect-drift start in
\* DetectDrift, also after a rejection, a failure, a timeout or a
\* cancellation; of all remote calls only the status query of a poller is
\* made more than once.
C24_OneMutatingRequest ==
    /\ \A k \in Kinds : calls[k] <= 1
    /\ calls["create"] + calls["update"] + calls["detect"] <= 1
    /\ mode = "deploy" => calls["detect"] = 0
    /\ mode = "drift" => calls["create"] + calls["update"] = 0
    /\ pollState # "Idle" =>
          calls["create"] + calls["update"] + calls["detect"] = 1
    /\ (pc = "done" /\ batchErr # Nil) => ~ENABLED Next

\* the update was rejected for missing capabilities and not sent again
C24_Witness ==
    /\ mode = "deploy"
    /\ pc = "done"
    /\ calls["update"] = 1
    /\ calls["create"] = 0
    /\ pollState = "Idle"
    /\ batchErr = Wrap("failed to deploy stack", stacks[idx],
                       Wrap("failed to update stack", "",
                            Errorf("InsufficientCapabilities", "")))

\* C25: after a poller has ended Cancelled or TimedOut the program sends no
\* further request for the stack, mutating or not: the one submission made
\* before the poller stays the only one, nothing is fetched, and the batch
\* has returned.
C25_NothingSentAfterAbort ==
    pollState \in {"Cancelled", "TimedOut"} =>
        /\ pc = "done"
        /\ status = ""
        /\ calls["create"] + calls["update"] + calls["detect"] = 1
        /\ calls["outputs"] + calls["describe"] + calls["drifts"] = 0
        /\ Len(results) = idx - 1
        /\ ~ENABLED Next

\* a create was submitted, then the wait for the stack was cancelled
C25_Witness ==
    /\ mode = "deploy"
    /\ pc = "done"
    /\ ctxDone
    /\ pollState = "Cancelled"
    /\ calls["create"] = 1
    /\ calls["update"] = 0
    /\ batchErr = Wrap("failed to deploy stack", stacks[idx], Canceled)

(***************************************************************************)
(* Outcomes of failed attempts.                                            *)
(***************************************************************************)
\* C26: every deploy attempt that ended, in success or in a terminal failure
\* status, has its one DeployResult in the results of the batch, holding the
\* stack name, the handle of the submission and, for the failed attempt, the
\* final status.
C26_OutcomePerAttempt ==
    mode = "deploy" =>
        \A p \in 1..Len(wfErr) :
            (wfErr[p] = Nil \/ ErrorIs(wfErr[p], "stack operation failed with status"))
            =>  /\ p <= Len(results)
                /\ results[p].StackName = stacks[p]
                /\ results[p].StackID = StackArn(stacks[p])
                /\ wfErr[p] # Nil => results[p].Status = wfErr[p][1].arg

\* C27: the outcome of a poller whose deadline elapsed differs from the
\* outcome of a poller to which the remote declared failure: a timeout
\* returns the empty status and an error that names the timeout and carries
\* no status string, a declared failure returns the terminal status and an
\* error that is no timeout.
C27_TimeoutDistinctFromFailure ==
    /\ pollState = "TimedOut" =>
          /\ pc = "done"
          /\ status = ""
          /\ wfErr[idx] = (IF mode = "deploy"
                           THEN Errorf("timeout waiting for stack", stacks[idx])
                           ELSE Errorf("timeout waiting for drift detection", ""))
          /\ Tail(batchErr) = wfErr[idx]
          /\ \A i \in 1..Len(batchErr) :
                /\ batchErr[i].arg \notin StackStatuses \cup DetectionStatuses
                /\ batchErr[i].msg \notin {"stack operation failed with status",
                                           "drift detection failed",
                                           "drift detection failed with status"}
    /\ pollState = "Failed" =>
          /\ pc = "done"
          /\ status \in FailureStatuses \cup {"DETECTION_FAILED"}
          /\ ~ErrorIs(batchErr, "timeout waiting for stack")
          /\ ~ErrorIs(batchErr, "timeout waiting for drift detection")

\* the deploy poller timed out on a stack that stayed UPDATE_IN_PROGRESS
C27_Witness ==
    /\ mode = "deploy"
    /\ pc = "done"
    /\ pollState = "TimedOut"
    /\ exists
    /\ calls["update"] = 1
    /\ batchErr = Wrap("failed to deploy stack", stacks[idx],
                       Errorf("timeout waiting for stack", stacks[idx]))

(***************************************************************************)
(* The content of the create and update requests.                          *)
(***************************************************************************)
\* C28: every create request and every update request Deploy sends declares
\* the capabilities CAPABILITY_IAM, CAPABILITY_NAMED_IAM and
\* CAPABILITY_AUTO_EXPAND, and every create request asks for rollback on
\* failure; the request sent is a create or an update of the stack at hand
\* with the template read for it.
C28_FullCapabilities ==
    mode = "deploy" =>
        /\ (calls["create"] + calls["update"] = 0) <=> (request = NoRequest)
        /\ request # NoRequest =>
              /\ request.op = (IF calls["create"] = 1 THEN "CreateStack"
                               ELSE "UpdateStack")
              /\ request.StackName = stacks[idx]
              /\ request.TemplateBody = templateBody
              /\ templateBody # ""
              /\ {request.Capabilities[i] : i \in 1..Len(request.Capabilities)}
                    = {"CAPABILITY_IAM", "CAPABILITY_NAMED_IAM",
                       "CAPABILITY_AUTO_EXPAND"}
              /\ request.op = "CreateStack" =>
                    request.OnFailure = "ROLLBACK"

\* an update was sent for the existing stack B and is being waited for
C28_Witness ==
    /\ mode = "deploy"
    /\ pc = "waitStack"
    /\ stacks[idx] = "B"
    /\ exists
    /\ request.op = "UpdateStack"
    /\ request.StackName = "B"
    /\ Len(request.Capabilities) = 3

C30_RemovedOnEveryPath ==
    (runPc = "returned" /\ ~ErrorIs(runErr, "failed to clone repository")) =>
        /\ cleanup => ~dirExists
        /\ ~cleanup => dirExists

\* C30: with -cleanup set and the clone succeeded, run removes the cloned
\* directory when it returns, on every path and not before: it calls
\* git.CleanupRepository exactly once and the directory is gone unless that
\* call itself failed and the warning was printed; with -cleanup unset, or
\* when the clone failed, it never calls it and a cloned directory stays.
C30_CleanupOnEveryPath ==
    /\ runPc \notin {"clone", "returned"} =>
          /\ dirExists
          /\ cleanupCalls = 0
    /\ runPc = "returned" =>
          LET cloned == ~ErrorIs(runErr, "failed to clone repository")
          IN  /\ ~cloned => (cleanupCalls = 0 /\ ~dirExists)
              /\ (cloned /\ cleanup) =>
                    /\ cleanupCalls = 1
                    /\ dirExists <=> cleanupWarned
              /\ (cloned /\ ~cleanup) =>
                    /\ cleanupCalls = 0
                    /\ dirExists
                    /\ ~cleanupWarned

\* a deploy aborted by a signal: run returned the error, the directory is gone
C30_Witness ==
    /\ runPc = "returned"
    /\ cleanup
    /\ ctxDone
    /\ mode = "deploy"
    /\ ErrorIs(runErr, "deployment failed")
    /\ ErrorIs(runErr, "context canceled")
    /\ cleanupCalls = 1
    /\ ~dirExists

(***************************************************************************)
(* Statuses left over from an earlier operation.                           *)
(***************************************************************************)
\* C31: Deploy takes as the success of the operation it submitted only a
\* successful terminal status of that operation: after an accepted update the
\* poller ends Succeeded on UPDATE_COMPLETE only, never on the CREATE_COMPLETE
\* the stack still shows from the operation that created it.
C31_NoStaleSuccess ==
    (mode = "deploy" /\ request # NoRequest /\ request.op = "UpdateStack"
        /\ pollState = "Succeeded")
    => status = "UPDATE_COMPLETE"

(***************************************************************************)
(* Termination (specification FairSpec).                                   *)
(***************************************************************************)
\* C32: every waitForStack and every waitForDriftDetection that was entered
\* returns, and a poller that read only non-terminal statuses, or none, ends
\* Succeeded, Failed, TimedOut or Cancelled; hence every DeployAll and every
\* DetectDriftAll returns.
C32_PollersReturn ==
    /\ (pc \in {"waitStack", "waitDrift"}) ~> (pc \notin {"waitStack", "waitDrift"})
    /\ <>(pc = "done")
    /\ [][(pc \in {"waitStack", "waitDrift"} /\ pc' # pc)
             => \/ pollState' \in {"Succeeded", "Failed", "TimedOut", "Cancelled"}
                \/ /\ pollState' = "QueryError"
                   /\ \/ ErrorIs(batchErr', "failed to describe stack")
                      \/ ErrorIs(batchErr', "stack not found")
                      \/ ErrorIs(batchErr', "failed to get drift detection status")]_vars

\* the second create of [A, B] stayed in progress until its deadline: the
\* batch returned A's result and the timeout
C32_Witness ==
    /\ mode = "deploy"
    /\ stacks = <<"A", "B">>
    /\ pc = "done"
    /\ idx = 2
    /\ Len(results) = 1
    /\ pollState = "TimedOut"
    /\ calls["create"] = 1
    /\ batchErr = Wrap("failed to deploy stack", "B",
                       Errorf("timeout waiting for stack", "B"))

(***************************************************************************)
(* The first poll interval.                                                *)
(***************************************************************************)
\* C33: a poller issues no status query before its first poll interval has
\* elapsed: until then it has made no query and read no status, the only ways
\* it can end are Cancelled and TimedOut, and whenever it ends Succeeded,
\* Failed or on a failed query at least one full interval has passed and the
\* tick was there.
C33_NoQueryBeforeFirstTick ==
    [][/\ (pc \in {"waitStack", "waitDrift"}
             /\ now < (IF pc = "waitStack" THEN StackPollInterval
                       ELSE DriftPollInterval))
          => /\ queries = 0
             /\ ~tickReady
             /\ status = ""
             /\ queries' = 0
             /\ pc' = pc => status' = ""
             /\ pc' # pc => pollState' \in {"Cancelled", "TimedOut"}
       /\ (pc \in {"waitStack", "waitDrift"}
             /\ pollState' \in {"Succeeded", "Failed", "QueryError"})
          => /\ tickReady
             /\ now >= (IF pc = "waitStack" THEN StackPollInterval
                        ELSE DriftPollInterval)]_vars

\* five seconds after the detection was started the first tick is there and
\* no status query has been made
C33_Witness ==
    /\ mode = "drift"
    /\ pc = "waitDrift"
    /\ now = DriftPollInterval
    /\ tickReady
    /\ queries = 0
    /\ status = ""
    /\ calls["detect"] = 1

(***************************************************************************)
(* A stack without a template.                                             *)
(***************************************************************************)
\* C34: when no template body can be read for a stack, Deploy returns before
\* any remote request for it: no existence query, no create, no update, no
\* status query; the batch ends there with the results of the stacks before
\* it and an error that names the stack and wraps the read error.  Every
\* request Deploy sends is sent with the template body read for its stack.
C34_NoTemplateNoRequest ==
    mode = "deploy" =>
        /\ pc \in {"exists", "submit", "waitStack", "outputs"} =>
              templateBody = "template:" \o stacks[idx]
        /\ \A p \in 1..Len(wfErr) :
              ErrorIs(wfErr[p], "failed to read template for stack") =>
                  /\ p = idx
                  /\ pc = "done"
                  /\ p \notin requested
                  /\ calls = NoCalls
                  /\ request = NoRequest
                  /\ pollState = "Idle"
                  /\ templateBody = ""
                  /\ wfErr[p][1].arg = stacks[p]
                  /\ batchErr = Wrap("failed to deploy stack", stacks[p], wfErr[p])
                  /\ Len(results) = p - 1
                  /\ ~ENABLED Next

\* [A, B] with no template for B: A was deployed, nothing was sent for B
C34_Witness ==
    /\ mode = "deploy"
    /\ stacks = <<"A", "B">>
    /\ pc = "done"
    /\ idx = 2
    /\ requested = {1}
    /\ Len(results) = 1
    /\ results[1].StackName = "A"
    /\ batchErr = Wrap("failed to deploy stack", "B",
                       Wrap("failed to read template for stack", "B",
                            Errorf("no such file", "")))

====
